---- MODULE Spec2Model ----
(***************************************************************************)
(* A model of text_editor.py: TextDocumentModel (file path + content, with *)
(* load_from_disk / save_to_disk) and TextEditorController (new_file,      *)
(* open_file, save_file, save_file_as) driving a view (text area, window   *)
(* title, status bar) over a small file system.                            *)
(*                                                                         *)
(* Text is a sequence of code points, a file a sequence of bytes. The      *)
(* symbols stand for the classes the code treats differently:              *)
(*   code points  "a"   an ordinary character                              *)
(*                "LF"  U+000A        "CR"  U+000D                         *)
(*                "SUR" a lone surrogate (U+D800), which has no UTF-8      *)
(*                      encoding                                           *)
(*   bytes        "61" (a)   "0A" (LF)   "0D" (CR)                         *)
(*                "FF"  a byte that occurs in no UTF-8 encoding            *)
(***************************************************************************)
EXTENDS Naturals, Sequences, FiniteSets

VARIABLES
    file_path,  \* TextDocumentModel._file_path: a path or None
    content,    \* TextDocumentModel._content
    viewText,   \* the QTextEdit's plain text
    title,      \* the window title
    status,     \* the message the last operation put in the status bar, or <<>>
    disk,       \* the file system: path -> [exists, bytes]
    linesep,    \* os.linesep of the platform the program runs on
    op,         \* the last operation invoked
    exc,        \* how it ended: "none", "cancelled" or the exception raised
    dialog,     \* the QMessageBox.critical title it showed, or "none"
    picker,     \* the QFileDialog it showed, or "none"
    escaped,    \* whether the exception left the controller's handler
    running,    \* whether the application still runs
    arg,        \* the path argument of the last direct model call
    ret         \* the value the last model method returned

vars == <<file_path, content, viewText, title, status, disk, linesep,
          op, exc, dialog, picker, escaped, running, arg, ret>>

modelVars == <<file_path, content>>
viewVars == <<viewText, title>>

----------------------------------------------------------------------------
(* Bounds *)

\* Longest text a user types into the text area / a caller assigns to content.
MaxLen == 1

----------------------------------------------------------------------------
(* Values *)

None == "None"

Paths == {"p1", "p2"}

NoFile == [exists |-> FALSE, bytes |-> <<>>]

File(b) == [exists |-> TRUE, bytes |-> b]

SeqsUpTo(S, n) == UNION {[1..k -> S] : k \in 0..n}

\* What the user can have in the text area: typed text, or a pasted lone
\* surrogate.
UserTexts == SeqsUpTo({"a", "LF"}, MaxLen) \cup {<<"SUR">>}

\* What a caller can assign to TextDocumentModel.content.
ModelTexts == SeqsUpTo({"a", "LF", "CR"}, MaxLen) \cup {<<"SUR">>}

\* The disk at start: "p1" may hold a file written elsewhere (a line ending in
\* "\r\n", or bytes that are not UTF-8); "p2" does not exist yet. Every other
\* file comes from the program's own saves.
InitFiles == { NoFile, File(<<"61", "0D", "0A">>), File(<<"FF">>) }

InitDisks == {d \in [Paths -> InitFiles] : d["p2"] = NoFile}

BaseTitle == <<"PyQt Text Editor">>

TitleWith(path) == <<"PyQt Text Editor - ", path>>

----------------------------------------------------------------------------
(* Text files: open(path, mode, encoding="utf-8"), newline left at None *)

\* The code point each valid byte encodes, and back.
DecodeByte == [b \in {"61", "0A", "0D"} |->
                 CASE b = "61" -> "a" [] b = "0A" -> "LF" [] b = "0D" -> "CR"]

EncodeChar == [c \in {"a", "LF", "CR"} |->
                 CASE c = "a" -> "61" [] c = "LF" -> "0A" [] c = "CR" -> "0D"]

\* The bytes are valid UTF-8.
Utf8Decodable(b) == \A i \in 1..Len(b) : b[i] \in DOMAIN DecodeByte

\* The text has a UTF-8 encoding.
Utf8Encodable(s) == \A i \in 1..Len(s) : s[i] \in DOMAIN EncodeChar

Utf8Decode(b) == [i \in 1..Len(b) |-> DecodeByte[b[i]]]

Utf8Encode(s) == [i \in 1..Len(s) |-> EncodeChar[s[i]]]

\* Reading in universal-newlines mode: "\r\n" and a lone "\r" become "\n".
RECURSIVE UniversalNewlines(_)
UniversalNewlines(s) ==
    IF s = <<>> THEN <<>>
    ELSE IF Head(s) = "CR"
         THEN IF Len(s) >= 2 /\ s[2] = "LF"
              THEN <<"LF">> \o UniversalNewlines(SubSeq(s, 3, Len(s)))
              ELSE <<"LF">> \o UniversalNewlines(Tail(s))
         ELSE <<Head(s)>> \o UniversalNewlines(Tail(s))

\* Writing with newline=None: each "\n" is written as os.linesep.
RECURSIVE WriteNewlines(_, _)
WriteNewlines(s, sep) ==
    IF s = <<>> THEN <<>>
    ELSE (IF Head(s) = "LF" THEN sep ELSE <<Head(s)>>)
         \o WriteNewlines(Tail(s), sep)

\* file.read() of a file opened "r": the bytes decoded, newlines translated.
ReadText(b) == UniversalNewlines(Utf8Decode(b))

\* file.write(s) to a file opened "w": newlines translated, text encoded.
WriteText(s, sep) == Utf8Encode(WriteNewlines(s, sep))

\* os.linesep: "\n" on POSIX, "\r\n" on Windows.
LineSeps == {<<"LF">>, <<"CR", "LF">>}

\* What the operating system can answer: to a read, "ok" or a refused open;
\* to a write, "ok", a refused open ("EACCES": the file is left as it was) or
\* a failed write after the open has truncated the file ("ENOSPC").
ReadIO == {"ok", "EACCES"}

WriteIO == {"ok", "EACCES", "ENOSPC"}

----------------------------------------------------------------------------
(* TextDocumentModel *)

\* load_from_disk(path) on the model state (fp, c) and the disk d; io is the
\* operating system's answer. The result: the exception raised (or "none"),
\* the model state afterwards and the value returned.
load_from_disk(fp, c, d, path, io) ==
    IF ~d[path].exists \/ io # "ok"
    THEN [exc |-> "OSError", file_path |-> fp, content |-> c, ret |-> None]
    ELSE IF ~Utf8Decodable(d[path].bytes)
    THEN [exc |-> "UnicodeDecodeError", file_path |-> fp, content |-> c,
          ret |-> None]
    ELSE LET text == ReadText(d[path].bytes)
         IN  [exc |-> "none", file_path |-> path, content |-> text,
              ret |-> text]

\* save_to_disk as it would be if the missing path were passed over in
\* silence instead of raising ValueError.
save_to_disk_silent(fp, c, d, path, io, sep) ==
    LET fp1 == IF path # None THEN path ELSE fp
    IN  IF fp1 = None
        THEN [exc |-> "none", file_path |-> fp1, disk |-> d, ret |-> None]
        ELSE IF io = "EACCES"
        THEN [exc |-> "OSError", file_path |-> fp1, disk |-> d, ret |-> None]
        ELSE IF ~Utf8Encodable(c)
        THEN [exc |-> "UnicodeEncodeError", file_path |-> fp1,
              disk |-> [d EXCEPT ![fp1] = File(<<>>)], ret |-> None]
        ELSE IF io = "ENOSPC"
        THEN [exc |-> "OSError", file_path |-> fp1,
              disk |-> [d EXCEPT ![fp1] = File(<<>>)], ret |-> None]
        ELSE [exc |-> "none", file_path |-> fp1,
              disk |-> [d EXCEPT ![fp1] = File(WriteText(c, sep))],
              ret |-> fp1]

\* save_to_disk as it would be if the file were opened in mode "a": the text
\* is added after what the file held.
save_to_disk_append(fp, c, d, path, io, sep) ==
    LET fp1 == IF path # None THEN path ELSE fp
    IN  IF fp1 = None
        THEN [exc |-> "ValueError", file_path |-> fp1, disk |-> d,
              ret |-> None]
        ELSE IF io = "EACCES"
        THEN [exc |-> "OSError", file_path |-> fp1, disk |-> d, ret |-> None]
        ELSE IF ~Utf8Encodable(c)
        THEN [exc |-> "UnicodeEncodeError", file_path |-> fp1,
              disk |-> [d EXCEPT ![fp1] = File(d[fp1].bytes)], ret |-> None]
        ELSE IF io = "ENOSPC"
        THEN [exc |-> "OSError", file_path |-> fp1,
              disk |-> [d EXCEPT ![fp1] = File(d[fp1].bytes)], ret |-> None]
        ELSE [exc |-> "none", file_path |-> fp1,
              disk |-> [d EXCEPT ![fp1] =
                           File(d[fp1].bytes \o WriteText(c, sep))],
              ret |-> fp1]

\* save_to_disk(path) on the model state (fp, c) and the disk d; path may be
\* None; io is the operating system's answer and sep is os.linesep. The
\* result: the exception raised (or "none"), the file path and the disk
\* afterwards and the value returned.
save_to_disk(fp, c, d, path, io, sep) ==
    LET fp1 == IF path # None THEN path ELSE fp
    IN  IF fp1 = None
        THEN [exc |-> "ValueError", file_path |-> fp1, disk |-> d,
              ret |-> None]
        ELSE IF io = "EACCES"
        THEN [exc |-> "OSError", file_path |-> fp1, disk |-> d, ret |-> None]
        ELSE IF ~Utf8Encodable(c)
        THEN [exc |-> "UnicodeEncodeError", file_path |-> fp1,
              disk |-> [d EXCEPT ![fp1] = File(<<>>)], ret |-> None]
        ELSE IF io = "ENOSPC"
        THEN [exc |-> "OSError", file_path |-> fp1,
              disk |-> [d EXCEPT ![fp1] = File(<<>>)], ret |-> None]
        ELSE [exc |-> "none", file_path |-> fp1,
              disk |-> [d EXCEPT ![fp1] = File(WriteText(c, sep))],
              ret |-> fp1]

\* Python's exception hierarchy: the Unicode errors are ValueErrors.
IsOSError(e) == e = "OSError"

IsValueError(e) == e \in {"ValueError", "UnicodeDecodeError", "UnicodeEncodeError"}

----------------------------------------------------------------------------
(* The state after main() has built the model, the view and the controller *)

Init ==
    /\ file_path = None
    /\ content = <<>>
    /\ viewText = <<>>
    /\ title = BaseTitle
    /\ status = <<"Ready">>
    /\ disk \in InitDisks
    /\ linesep \in LineSeps
    /\ op = "init"
    /\ exc = "none"
    /\ dialog = "none"
    /\ picker = "none"
    /\ escaped = FALSE
    /\ running = TRUE
    /\ arg = None
    /\ ret = None

----------------------------------------------------------------------------
(* TextEditorController: one action per slot *)

\* The slot returned normally, having shown the message box dlg (or "none").
Returned(e, dlg) ==
    /\ exc' = e
    /\ dialog' = dlg
    /\ escaped' = FALSE
    /\ running' = running

\* The exception e left the slot. PyQt5 (5.5 and later) then aborts the
\* application through qFatal(); older versions print the traceback and go on.
Raised(e) ==
    /\ exc' = e
    /\ dialog' = "none"
    /\ escaped' = TRUE
    /\ running' \in BOOLEAN

\* new_file as it would be without the reset of the model's file path.
new_file_keeps_path ==
    /\ running
    /\ file_path' = file_path
    /\ content' = <<>>
    /\ viewText' = <<>>
    /\ status' = <<"New document">>
    /\ title' = BaseTitle
    /\ op' = "new_file"
    /\ picker' = "none"
    /\ Returned("none", "none")
    /\ UNCHANGED <<disk, linesep, arg, ret>>

new_file ==
    /\ running
    /\ file_path' = None
    /\ content' = <<>>
    /\ viewText' = <<>>
    /\ status' = <<"New document">>
    /\ title' = BaseTitle
    /\ op' = "new_file"
    /\ picker' = "none"
    /\ Returned("none", "none")
    /\ UNCHANGED <<disk, linesep, arg, ret>>

\* The end of open_file as it would be without the setPlainText call.
show_opened_without_text(text, path) ==
    /\ viewText' = viewText
    /\ status' = <<"Opened: ", path>>
    /\ title' = TitleWith(path)

\* The end of open_file: the loaded text goes into the text area, the path
\* into the status bar and the window title.
show_opened(text, path) ==
    /\ viewText' = text
    /\ status' = <<"Opened: ", path>>
    /\ title' = TitleWith(path)

\* path is what QFileDialog.getOpenFileName returns: "" when cancelled.
open_file(path, io) ==
    /\ running
    /\ op' = "open_file"
    /\ picker' = "getOpenFileName"
    /\ UNCHANGED <<disk, linesep, arg, ret>>
    /\ IF path = ""
       THEN /\ Returned("cancelled", "none")
            /\ status' = <<>>
            /\ UNCHANGED <<modelVars, viewVars>>
       ELSE LET r == load_from_disk(file_path, content, disk, path, io)
            IN  /\ file_path' = r.file_path
                /\ content' = r.content
                /\ IF r.exc = "none"
                   THEN /\ show_opened(r.ret, path)
                        /\ Returned("none", "none")
                   ELSE /\ status' = <<>>
                        /\ UNCHANGED viewVars
                        /\ IF IsOSError(r.exc)
                           THEN Returned(r.exc, "Open File")
                           ELSE Raised(r.exc)

\* The body of save_file_as; path is what QFileDialog.getSaveFileName returns.
save_file_as_flow(path, io) ==
    /\ picker' = "getSaveFileName"
    /\ UNCHANGED <<linesep, arg, ret>>
    /\ IF path = ""
       THEN /\ Returned("cancelled", "none")
            /\ status' = <<>>
            /\ UNCHANGED <<modelVars, viewVars, disk>>
       ELSE LET r == save_to_disk(file_path, viewText, disk, path, io, linesep)
            IN  /\ content' = viewText
                /\ file_path' = r.file_path
                /\ disk' = r.disk
                /\ viewText' = viewText
                /\ IF r.exc = "none"
                   THEN /\ status' = <<"Saved: ", r.ret>>
                        /\ title' = TitleWith(r.ret)
                        /\ Returned("none", "none")
                   ELSE /\ status' = <<>>
                        /\ title' = title
                        /\ IF IsOSError(r.exc)
                           THEN Returned(r.exc, "Save File")
                           ELSE Raised(r.exc)

save_file_as(path, io) ==
    /\ running
    /\ op' = "save_file_as"
    /\ save_file_as_flow(path, io)

\* save_file as it would be without the line that pulls the text area's text
\* into the model: what is written is the model's old content.
save_file_stale(path, io) ==
    /\ running
    /\ op' = "save_file"
    /\ IF file_path = None
       THEN save_file_as_flow(path, io)
       ELSE LET r == save_to_disk(file_path, content, disk, None, io, linesep)
            IN  /\ picker' = "none"
                /\ content' = content
                /\ file_path' = r.file_path
                /\ disk' = r.disk
                /\ UNCHANGED <<viewText, title, linesep, arg, ret>>
                /\ IF r.exc = "none"
                   THEN /\ status' = <<"Saved: ", r.ret>>
                        /\ Returned("none", "none")
                   ELSE /\ status' = <<>>
                        /\ IF IsOSError(r.exc) \/ IsValueError(r.exc)
                           THEN Returned(r.exc, "Save File")
                           ELSE Raised(r.exc)

\* path and io are used as far as the branch taken needs them.
save_file(path, io) ==
    /\ running
    /\ op' = "save_file"
    /\ IF file_path = None
       THEN save_file_as_flow(path, io)
       ELSE LET r == save_to_disk(file_path, viewText, disk, None, io, linesep)
            IN  /\ picker' = "none"
                /\ content' = viewText
                /\ file_path' = r.file_path
                /\ disk' = r.disk
                /\ UNCHANGED <<viewText, title, linesep, arg, ret>>
                /\ IF r.exc = "none"
                   THEN /\ status' = <<"Saved: ", r.ret>>
                        /\ Returned("none", "none")
                   ELSE /\ status' = <<>>
                        /\ IF IsOSError(r.exc) \/ IsValueError(r.exc)
                           THEN Returned(r.exc, "Save File")
                           ELSE Raised(r.exc)

\* The user changes the text area: typing, or the undo, redo, cut and paste
\* actions, which are wired to the QTextEdit alone.
edit_text(text) ==
    /\ running
    /\ text # viewText
    /\ viewText' = text
    /\ op' = "edit_text"
    /\ picker' = "none"
    /\ status' = <<>>
    /\ Returned("none", "none")
    /\ UNCHANGED <<modelVars, title, disk, linesep, arg, ret>>

Next ==
    \/ new_file
    \/ \E path \in Paths \cup {""}, io \in ReadIO : open_file(path, io)
    \/ \E path \in Paths \cup {""}, io \in WriteIO :
           save_file(path, io)
    \/ \E path \in Paths \cup {""}, io \in WriteIO :
           save_file_as(path, io)
    \/ \E text \in UserTexts : edit_text(text)

Spec == Init /\ [][Next]_vars

----------------------------------------------------------------------------
(* TextDocumentModel used on its own: its methods and setters called       *)
(* directly, exceptions going to the caller                                 *)

Called(name, a, e, r) ==
    /\ op' = name
    /\ arg' = a
    /\ exc' = e
    /\ ret' = r
    /\ UNCHANGED <<viewVars, status, linesep, dialog, picker, escaped, running>>

set_file_path(value) ==
    /\ file_path' = value
    /\ Called("file_path", None, "none", None)
    /\ UNCHANGED <<content, disk>>

set_content(value) ==
    /\ content' = value
    /\ Called("content", None, "none", None)
    /\ UNCHANGED <<file_path, disk>>

call_load_from_disk(path, io) ==
    LET r == load_from_disk(file_path, content, disk, path, io)
    IN  /\ file_path' = r.file_path
        /\ content' = r.content
        /\ Called("load_from_disk", path, r.exc, r.ret)
        /\ UNCHANGED disk

call_save_to_disk(path, io) ==
    LET r == save_to_disk(file_path, content, disk, path, io, linesep)
    IN  /\ file_path' = r.file_path
        /\ disk' = r.disk
        /\ Called("save_to_disk", path, r.exc, r.ret)
        /\ UNCHANGED content

ModelNext ==
    \/ \E value \in Paths \cup {None} : set_file_path(value)
    \/ \E value \in ModelTexts : set_content(value)
    \/ \E path \in Paths, io \in ReadIO : call_load_from_disk(path, io)
    \/ \E path \in Paths \cup {None}, io \in WriteIO :
           call_save_to_disk(path, io)

ModelSpec == Init /\ [][ModelNext]_vars

----------------------------------------------------------------------------
(* Properties of the controller: formulas over Spec *)

LoadFailures == {"OSError", "UnicodeDecodeError"}

Handlers == {"open_file", "save_file", "save_file_as"}

TitleFor(fp) == IF fp = None THEN BaseTitle ELSE TitleWith(fp)

\* C1: when open_file is given a path and the load fails (the file cannot be
\* opened, read or decoded as UTF-8), an error dialog is shown and
\* model.file_path, model.content, the view's text and the window title keep
\* their values.
C1_OpenFailureShowsDialogKeepsState ==
    [][ (op' = "open_file" /\ exc' \in LoadFailures)
        => /\ dialog' = "Open File"
           /\ file_path' = file_path
           /\ content' = content
           /\ viewText' = viewText
           /\ title' = title ]_vars

\* C2: every failure the model raises during open_file, save_file or
\* save_file_as is caught in that handler and shown as an error dialog: no
\* exception leaves the handler and the application goes on running.
C2_FailuresCaughtInHandler ==
    (op \in Handlers /\ exc \notin {"none", "cancelled"})
    => (dialog # "none" /\ ~escaped /\ running)

\* C3: after any sequence of new_file, open_file, save_file and save_file_as
\* (succeeding, failing or cancelled) the window title shows the model's file
\* path: "PyQt Text Editor - P" exactly when file_path is P, the bare
\* "PyQt Text Editor" exactly when it is None.
C3_TitleShowsFilePath == title = TitleFor(file_path)

\* C7: from every state, new_file sets file_path to None and content to the
\* empty string, clears the view's text and resets the window title; it raises
\* nothing, shows no dialog and touches no file.
C7_NewFileResets ==
    [][ op' = "new_file"
        => /\ file_path' = None
           /\ content' = <<>>
           /\ viewText' = <<>>
           /\ title' = BaseTitle
           /\ exc' = "none" /\ dialog' = "none" /\ ~escaped' /\ running'
           /\ disk' = disk ]_vars

\* new_file has run in a state where a document had been saved to "p2".
C7_Witness ==
    /\ op = "new_file"
    /\ file_path = None /\ content = <<>> /\ title = BaseTitle
    /\ disk["p2"].exists /\ disk["p2"].bytes # <<>>

C10_ContentAlwaysEqualsViewText == content = viewText

\* C10 as the code has it: the operations that load, reset or save put the
\* model's content and the view's text in step (new_file; a successful
\* open_file; every save_file or save_file_as that is not cancelled, also when
\* the write then fails), while an edit of the text area changes the view
\* alone, so that content is the text as of the last such operation.
C10_ContentSyncedByOperations ==
    [][ /\ ( \/ op' = "new_file"
             \/ (op' = "open_file" /\ exc' = "none")
             \/ (op' \in {"save_file", "save_file_as"} /\ exc' # "cancelled") )
           => content' = viewText'
        /\ op' = "edit_text" => (content' = content /\ viewText' # viewText)
        /\ (op' = "open_file" /\ exc' # "none") => content' = content ]_vars

\* An edited text was pulled into the model by a save whose write then failed.
C10_Witness ==
    /\ op \in {"save_file", "save_file_as"} /\ exc = "OSError"
    /\ content # <<>> /\ content = viewText

----------------------------------------------------------------------------
(* Properties of TextDocumentModel: formulas over ModelSpec *)

\* C4: save_to_disk with no path argument while file_path is None raises
\* ValueError and writes nothing: no file is created or changed, and
\* file_path and content stay as they were.
C4_SaveWithoutPathFails ==
    [][ (op' = "save_to_disk" /\ arg' = None /\ file_path = None)
        => /\ exc' = "ValueError"
           /\ disk' = disk
           /\ file_path' = None
           /\ content' = content ]_vars

\* save_to_disk() was called on a model without a path, holding some text,
\* with a file on the disk.
C4_Witness ==
    /\ op = "save_to_disk" /\ arg = None /\ exc = "ValueError"
    /\ file_path = None /\ content # <<>>
    /\ \E q \in Paths : disk[q].exists

C6_LoadSetsDecodedContent ==
    [][ (op' = "load_from_disk" /\ exc' = "none")
        => /\ content' = Utf8Decode(disk[arg'].bytes)
           /\ file_path' = arg'
           /\ ret' = content'
           /\ disk' = disk ]_vars

\* C8: load_from_disk(P) followed at once by save_to_disk(P), the content not
\* touched in between, leaves the bytes of the file at P as they were before
\* the load (the load itself writes nothing).
C8_LoadSaveKeepsBytes ==
    [][ ( /\ op = "load_from_disk" /\ exc = "none"
          /\ op' = "save_to_disk" /\ exc' = "none" /\ arg' = arg )
        => disk'[arg].bytes = disk[arg].bytes ]_vars

====
